---- MODULE Spec2Model ----
(***************************************************************************)
(* State-machine model of the mosdac_utils package:                        *)
(*   data_utils.py  _post_req, the three catalog fetchers, the two row     *)
(*                  projectors and make_all_products_dataframe             *)
(*   rss_utils.py   rss_scraper                                            *)
(* One behaviour is one call of one public operation.  Python values are   *)
(* tagged records, a dict is the sequence of its (key, value) pairs in     *)
(* insertion order, a DataFrame is its column list plus its row list.      *)
(***************************************************************************)
EXTENDS Integers, Sequences, FiniteSets, TLC

VARIABLES op, input, remote, sent, ret, idx, all_dataframes, trace

vars == <<op, input, remote, sent, ret, idx, all_dataframes, trace>>

\* ------------------------------------------------------------- bounds
MaxProducts == 2
MaxRows == 2
MaxSensors == 2
MaxEntries == 2

\* ------------------------------------------------------ Python values
None == [t |-> "none"]
NaN == [t |-> "nan"]
IntV(n) == [t |-> "int", i |-> n]
StrV(s) == [t |-> "str", s |-> s]
ListV(items) == [t |-> "list", items |-> items]
DictV(pairs) == [t |-> "dict", pairs |-> pairs]

Return(v) == [k |-> "return", v |-> v]
Raise(e) == [k |-> "raise", exc |-> e]
Pending == [k |-> "pending"]
Nothing == [t |-> "unused"]

Range(s) == {s[i] : i \in 1..Len(s)}

SeqsUpTo(S, n) == UNION {[1..m -> S] : m \in 0..n}

\* str(x) of an int or a str
Str(x) == IF x.t = "int" THEN StrV(ToString(x.i)) ELSE x

\* `not x` for None, a list, a dict or a str (a text is a str kept as its
\* whitespace-separated tokens)
Falsy(x) ==
    \/ x.t = "none"
    \/ x.t = "list" /\ x.items = <<>>
    \/ x.t = "dict" /\ x.pairs = <<>>
    \/ x.t = "str" /\ x.s = ""
    \/ x.t = "text" /\ x.tokens = <<>>

\* dict access: key order, membership, d[k]
Keys(d) == [i \in 1..Len(d) |-> d[i][1]]
HasKey(d, key) == \E i \in 1..Len(d) : d[i][1] = key
Get(d, key) == d[CHOOSE i \in 1..Len(d) : d[i][1] = key][2]

\* x[key] as Python evaluates it: KeyError on a mapping without the key,
\* TypeError on a str (the elements a dict yields when iterated)
Subscript(x, key) ==
    IF x.t # "dict" THEN Raise("TypeError")
    ELSE IF ~HasKey(x.pairs, key) THEN Raise("KeyError")
    ELSE Return(Get(x.pairs, key))

\* iterating a list yields its items, iterating a dict yields its keys
Iterate(x) ==
    IF x.t = "dict" THEN [i \in 1..Len(x.pairs) |-> StrV(x.pairs[i][1])]
    ELSE x.items

\* ---------------------------------------------------------- DataFrames
DataFrame(columns, rows) == [t |-> "df", columns |-> columns, rows |-> rows]
EmptyDataFrame == DataFrame(<<>>, <<>>)

\* union of two column lists, first appearance first
UnionOrder(s, u) == s \o SelectSeq(u, LAMBDA c : c \notin Range(s))

RECURSIVE ColumnsOfRecords(_)
ColumnsOfRecords(items) ==
    IF items = <<>> THEN <<>>
    ELSE UnionOrder(ColumnsOfRecords(SubSeq(items, 1, Len(items) - 1)),
                    Keys(items[Len(items)].pairs))

\* pd.DataFrame(data): a list of dicts gives one row per dict, the columns
\* the keys in first-seen order, NaN where a dict lacks a key; a dict of
\* scalars is refused with ValueError
DataFrameCtor(data) ==
    IF data.t = "dict" THEN Raise("ValueError")
    ELSE LET cols == ColumnsOfRecords(data.items)
         IN  Return(DataFrame(cols,
                 [i \in 1..Len(data.items) |->
                     [c \in Range(cols) |->
                         IF HasKey(data.items[i].pairs, c)
                         THEN Get(data.items[i].pairs, c) ELSE NaN]]))

\* a df[col] = scalar that leaves an existing column as it is
SetItem_keep(df, col, val) ==
    IF col \in Range(df.columns) THEN df
    ELSE DataFrame(Append(df.columns, col),
                   [i \in 1..Len(df.rows) |->
                       [c \in Range(df.columns) \cup {col} |->
                           IF c = col THEN val ELSE df.rows[i][c]]])

\* df[col] = scalar: overwrites the column in place, or appends a new one
SetItem(df, col, val) ==
    DataFrame(IF col \in Range(df.columns) THEN df.columns
              ELSE Append(df.columns, col),
              [i \in 1..Len(df.rows) |->
                  [c \in Range(df.columns) \cup {col} |->
                      IF c = col THEN val ELSE df.rows[i][c]]])

\* df[new_order]
Select(df, order) ==
    DataFrame(order,
              [i \in 1..Len(df.rows) |-> [c \in Range(order) |-> df.rows[i][c]]])

RECURSIVE ConcatColumns(_)
ConcatColumns(dfs) ==
    IF dfs = <<>> THEN <<>>
    ELSE UnionOrder(ConcatColumns(SubSeq(dfs, 1, Len(dfs) - 1)),
                    dfs[Len(dfs)].columns)

RECURSIVE ConcatRows(_, _)
ConcatRows(dfs, cols) ==
    IF dfs = <<>> THEN <<>>
    ELSE LET last == dfs[Len(dfs)]
         IN  ConcatRows(SubSeq(dfs, 1, Len(dfs) - 1), cols) \o
             [i \in 1..Len(last.rows) |->
                 [c \in Range(cols) |->
                     IF c \in Range(last.columns) THEN last.rows[i][c] ELSE NaN]]

Reversed(dfs) == [i \in 1..Len(dfs) |-> dfs[Len(dfs) + 1 - i]]

\* a concatenation that puts the latest table first
Concat_reversed(dfs) ==
    IF dfs = <<>> THEN Raise("ValueError")
    ELSE Return(DataFrame(ConcatColumns(Reversed(dfs)),
                          ConcatRows(Reversed(dfs), ConcatColumns(Reversed(dfs)))))

\* pd.concat(dfs, ignore_index=True): ValueError on an empty list
Concat(dfs) ==
    IF dfs = <<>> THEN Raise("ValueError")
    ELSE Return(DataFrame(ConcatColumns(dfs), ConcatRows(dfs, ConcatColumns(dfs))))

\* ------------------------------------------------ the remote service
Undecodable == [t |-> "undecodable"]

RecA == DictV(<< <<"id", IntV(1)>>, <<"title", StrV("SST")>> >>)
RecB == DictV(<< <<"extra", StrV("x")>>, <<"sensor_id", StrV("own")>>,
                 <<"id", IntV(2)>> >>)
ProductRecords == {RecA, RecB}
ProductLists == {ListV(s) : s \in SeqsUpTo(ProductRecords, MaxProducts)}
ErrorObject == DictV(<< <<"error", StrV("bad request")>> >>)
EmptyObject == DictV(<<>>)
JsonBodies == ProductLists \cup {ErrorObject, EmptyObject}

Statuses == {200, 300, 404, 500}

\* what one requests.post call can meet: a transport error, a timeout, or a
\* final response with a status and a body
RemoteOutcomes ==
    {[transport |-> tr, status |-> 0, body |-> Undecodable] :
        tr \in {"ConnectionError", "Timeout"}}
    \cup {[transport |-> "ok", status |-> s, body |-> b] :
            s \in Statuses, b \in JsonBodies \cup {Undecodable}}

\* --------------------------------------------------------- _post_req
DefaultTimeout == 10

Headers == [UserAgent |-> "Mozilla/5.0", ContentType |-> "application/json",
            Origin |-> "https://www.mosdac.gov.in",
            XRequestedWith |-> "XMLHttpRequest"]

\* response.raise_for_status(): HTTPError for a 4xx or 5xx status
raise_for_status(status) == 400 <= status /\ status < 600

\* the try block: requests.post, raise_for_status, response.json()
post_try(outcome) ==
    IF outcome.transport # "ok" THEN Raise(outcome.transport)
    ELSE IF raise_for_status(outcome.status) THEN Raise("HTTPError")
    ELSE IF outcome.body = Undecodable THEN Raise("JSONDecodeError")
    ELSE Return(outcome.body)

\* a helper that posts a second time after a failed attempt
post_requests_retry(url, headers, payload, timeout, outcome) ==
    LET request == [url |-> url, headers |-> headers, json |-> payload,
                    timeout |-> timeout, verify |-> TRUE]
    IN  IF post_try(outcome).k = "raise" THEN <<request, request>> ELSE <<request>>

\* the requests.post calls one _post_req call issues
post_requests(url, headers, payload, timeout, outcome) ==
    << [url |-> url, headers |-> headers, json |-> payload,
        timeout |-> timeout, verify |-> TRUE] >>

\* _post_req: the POSTs it sent and what it returns (except Exception: None)
post_req(url, headers, payload, timeout, outcome) ==
    [sent |-> post_requests(url, headers, payload, timeout, outcome),
     ret  |-> IF post_try(outcome).k = "raise" THEN Return(None)
              ELSE post_try(outcome)]

\* ----------------------------------------------------- the fetchers
fetch_satellite_data(payload, outcome) ==
    post_req("https://www.mosdac.gov.in/catalog/Search/getSatelliteData.php",
             Headers, payload, DefaultTimeout, outcome)

fetch_satellite_sensors_data(satellite_id, outcome) ==
    post_req("https://www.mosdac.gov.in/catalog/Search/getSensorData.php",
             Headers, DictV(<< <<"id", Str(satellite_id)>> >>),
             DefaultTimeout, outcome)

fetch_all_products_data(satellite_id, sensor_id, outcome) ==
    post_req("https://www.mosdac.gov.in/catalog/Search/getAllProductData.php",
             Headers,
             DictV(<< <<"datasource_id", Str(satellite_id)>>,
                      <<"sensor_id", Str(sensor_id)>> >>),
             DefaultTimeout, outcome)

\* ---------------------------------------------------- the projectors
IdentityColumns == <<"satellite_name", "satellite_id", "sensor_name", "sensor_id">>

\* one iteration of the for loop of process_satellite_sensors_data
new_row(satellite_name, satellite_id, sensor) ==
    LET name == Subscript(sensor, "name")
        id == Subscript(sensor, "id")
    IN  IF name.k = "raise" THEN name
        ELSE IF id.k = "raise" THEN id
        ELSE Return(DictV(<< <<"satellite_name", Str(satellite_name)>>,
                             <<"satellite_id", Str(satellite_id)>>,
                             <<"sensor_name", Str(name.v)>>,
                             <<"sensor_id", Str(id.v)>> >>))

\* a loop that skips a malformed element and keeps the others
RECURSIVE new_rows_skip(_, _, _)
new_rows_skip(satellite_name, satellite_id, sensors) ==
    IF sensors = <<>> THEN Return(<<>>)
    ELSE LET before == new_rows_skip(satellite_name, satellite_id,
                                     SubSeq(sensors, 1, Len(sensors) - 1))
             this == new_row(satellite_name, satellite_id, sensors[Len(sensors)])
         IN  IF this.k = "raise" THEN before
             ELSE Return(Append(before.v, this.v))

\* the for loop: the rows so far, or the first exception
RECURSIVE new_rows(_, _, _)
new_rows(satellite_name, satellite_id, sensors) ==
    IF sensors = <<>> THEN Return(<<>>)
    ELSE LET before == new_rows(satellite_name, satellite_id,
                                SubSeq(sensors, 1, Len(sensors) - 1))
             this == new_row(satellite_name, satellite_id, sensors[Len(sensors)])
         IN  IF before.k = "raise" THEN before
             ELSE IF this.k = "raise" THEN this
             ELSE Return(Append(before.v, this.v))

process_satellite_sensors_data(satellite_name, satellite_id, data) ==
    IF Falsy(data) THEN Return(None)
    ELSE LET rows == new_rows(satellite_name, satellite_id, Iterate(data))
         IN  IF rows.k = "raise" THEN Return(None)
             ELSE IF DataFrameCtor(ListV(rows.v)).k = "raise" THEN Return(None)
             ELSE DataFrameCtor(ListV(rows.v))

\* the column list of line 227
new_order(columns) ==
    IdentityColumns \o SelectSeq(columns, LAMBDA c : c \notin Range(IdentityColumns))

process_all_products_data(satellite_id, satellite_name, sensor_id, sensor_name, data) ==
    IF Falsy(data) THEN Return(None)
    ELSE LET made == DataFrameCtor(data)
         IN  IF made.k = "raise" THEN made
             ELSE LET product_df ==
                          SetItem(SetItem(SetItem(SetItem(made.v,
                              "satellite_name", satellite_name),
                              "satellite_id", satellite_id),
                              "sensor_name", sensor_name),
                              "sensor_id", sensor_id)
                  IN  Return(Select(product_df, new_order(product_df.columns)))

\* ------------------------------------------ make_all_products_dataframe
\* a loop body that keeps only the latest table
collect_last(frames, processed_df) ==
    IF processed_df # None THEN <<processed_df>> ELSE frames

\* lines 260-265: keep a table, skip an absence
collect(frames, processed_df) ==
    IF processed_df # None THEN Append(frames, processed_df) ELSE frames

\* a result without the guard for an empty list
make_result_unguarded(frames) == Concat(frames)

\* lines 267-272
make_result(frames) ==
    IF frames = <<>> THEN Return(EmptyDataFrame) ELSE Concat(frames)

\* ------------------------------------------------------- rss_scraper
\* a str as the tokens str.split() gives
TextV(tokens) == [t |-> "text", tokens |-> tokens]
Numeral(whole, frac) == [t |-> "numeral", whole |-> whole, frac |-> frac]
Word(s) == [t |-> "word", s |-> s]

\* a str of the shape "Www, dd Mmm yyyy HH:MM:SS ZZZ", field by field
TsV(wd, day, mon, year, hh, mm, ss, tz) ==
    [t |-> "ts", wd |-> wd, day |-> day, mon |-> mon, year |-> year,
     hh |-> hh, mm |-> mm, ss |-> ss, tz |-> tz]

Weekdays == {"Mon", "Tue", "Wed", "Thu", "Fri", "Sat", "Sun"}
Months == <<"Jan", "Feb", "Mar", "Apr", "May", "Jun",
            "Jul", "Aug", "Sep", "Oct", "Nov", "Dec">>
MonthNumber(mon) == CHOOSE m \in 1..Len(Months) : Months[m] = mon
IsLeap(year) == year % 4 = 0 /\ (year % 100 # 0 \/ year % 400 = 0)
DaysIn(month, year) ==
    IF month = 2 THEN (IF IsLeap(year) THEN 29 ELSE 28)
    ELSE IF month \in {4, 6, 9, 11} THEN 30 ELSE 31

\* datetime.datetime.strptime(x, "%a, %d %b %Y %H:%M:%S %Z")
strptime(x) ==
    IF x.t = "none" THEN Raise("TypeError")
    ELSE IF x.t # "ts" THEN Raise("ValueError")
    ELSE IF \/ x.wd \notin Weekdays
            \/ x.mon \notin Range(Months)
            \/ x.year \notin 1..9999
            \/ x.hh \notin 0..23 \/ x.mm \notin 0..59 \/ x.ss \notin 0..59
            \/ x.tz \notin {"UTC", "GMT"}
         THEN Raise("ValueError")
    ELSE IF x.day \notin 1..DaysIn(MonthNumber(x.mon), x.year)
         THEN Raise("ValueError")
    ELSE Return([year |-> x.year, month |-> MonthNumber(x.mon), day |-> x.day,
                 hour |-> x.hh, minute |-> x.mm, second |-> x.ss])

Pad2(n) == IF n < 10 THEN "0" \o ToString(n) ELSE ToString(n)
Pad4(n) == IF n < 10 THEN "000" \o ToString(n)
           ELSE IF n < 100 THEN "00" \o ToString(n)
           ELSE IF n < 1000 THEN "0" \o ToString(n) ELSE ToString(n)

\* acq_dt.strftime("%Y-%m-%dT%H-%M-%S")
strftime(dt) ==
    Pad4(dt.year) \o "-" \o Pad2(dt.month) \o "-" \o Pad2(dt.day) \o "T" \o
    Pad2(dt.hour) \o "-" \o Pad2(dt.minute) \o "-" \o Pad2(dt.second)

\* f"{title}": the text of a str, "None" for None
Format(x) == IF x.t = "none" THEN "None" ELSE x.s

\* entry.get(key)
EntryGet(entry, key) == IF HasKey(entry.pairs, key) THEN Get(entry.pairs, key) ELSE None

\* float(token)
Float(token) ==
    IF token.t = "numeral" THEN Return([t |-> "float", whole |-> token.whole,
                                        frac |-> token.frac])
    ELSE Raise("ValueError")

\* list(map(float, text.split())) when the text is truthy, the value itself
\* when it is None or ""
bbox(x) ==
    IF Falsy(x) THEN Return(x)
    ELSE IF \E i \in 1..Len(x.tokens) : Float(x.tokens[i]).k = "raise"
         THEN Raise("ValueError")
    ELSE Return(ListV([i \in 1..Len(x.tokens) |-> Float(x.tokens[i]).v]))

\* the body of the for loop of rss_scraper: the row dict, or the exception
entry_row(entry) ==
    LET acq_start == EntryGet(entry, "datacasting_acquisitionstartdate")
        acq_dt == strptime(acq_start)
        bbox_lower == bbox(EntryGet(entry, "gml_lowercorner"))
        bbox_upper == bbox(EntryGet(entry, "gml_uppercorner"))
    IN  IF acq_dt.k = "raise" THEN acq_dt
        ELSE IF bbox_lower.k = "raise" THEN bbox_lower
        ELSE IF bbox_upper.k = "raise" THEN bbox_upper
        ELSE Return(DictV(<<
            <<"product_id", StrV(Format(EntryGet(entry, "title")) \o "_" \o
                                 strftime(acq_dt.v))>>,
            <<"title", EntryGet(entry, "title")>>,
            <<"description", EntryGet(entry, "description")>>,
            <<"pub_date", EntryGet(entry, "published")>>,
            <<"acq_start", acq_start>>,
            <<"preview_url", EntryGet(entry, "datacasting_preview")>>,
            <<"link", EntryGet(entry, "link")>>,
            <<"bbox_lower", bbox_lower.v>>,
            <<"bbox_upper", bbox_upper.v>> >>))

\* a loop that skips an entry that fails and keeps the others
RECURSIVE all_data_skip(_)
all_data_skip(entries) ==
    IF entries = <<>> THEN Return(<<>>)
    ELSE LET before == all_data_skip(SubSeq(entries, 1, Len(entries) - 1))
             this == entry_row(entries[Len(entries)])
         IN  IF this.k = "raise" THEN before
             ELSE Return(Append(before.v, this.v))

\* the for loop: all_data, or the first exception
RECURSIVE all_data(_)
all_data(entries) ==
    IF entries = <<>> THEN Return(<<>>)
    ELSE LET before == all_data(SubSeq(entries, 1, Len(entries) - 1))
             this == entry_row(entries[Len(entries)])
         IN  IF before.k = "raise" THEN before
             ELSE IF this.k = "raise" THEN this
             ELSE Return(Append(before.v, this.v))

\* rss_scraper on the feed feedparser.parse(url) gives; a bare return and
\* the except branch both return None
rss_scraper(feed) ==
    IF feed.entries = <<>> THEN Return(None)
    ELSE LET rows == all_data(feed.entries)
         IN  IF rows.k = "raise" THEN Return(None)
             ELSE IF DataFrameCtor(ListV(rows.v)).k = "raise" THEN Return(None)
             ELSE DataFrameCtor(ListV(rows.v))

\* ------------------------------------------------------------ inputs
Payloads == {DictV(<< <<"type", StrV("satellite")>> >>), DictV(<<>>)}

Satellites == {<<StrV("INSAT-3D"), IntV(3)>>, <<StrV("SCATSAT-1"), StrV("5")>>}

SensorElems ==
    {DictV(<< <<"name", StrV("IMAGER")>>, <<"id", IntV(7)>> >>),
     DictV(<< <<"id", StrV("8")>>, <<"name", StrV("SOUNDER")>> >>),
     DictV(<< <<"name", StrV("SCAT")>> >>),
     DictV(<< <<"id", IntV(9)>> >>)}
SensorData ==
    {None, ErrorObject, EmptyObject}
    \cup {ListV(s) : s \in SeqsUpTo(SensorElems, MaxSensors)}

SensorRow(satellite_name, satellite_id, sensor_name, sensor_id) ==
    [c \in Range(IdentityColumns) |->
        CASE c = "satellite_name" -> satellite_name
          [] c = "satellite_id" -> satellite_id
          [] c = "sensor_name" -> sensor_name
          [] c = "sensor_id" -> sensor_id]
SensorRows ==
    {SensorRow(StrV("INSAT-3D"), StrV("3"), StrV("IMAGER"), StrV("7")),
     SensorRow(StrV("SCATSAT-1"), IntV(5), StrV("SCAT"), IntV(9))}
SensorTables == {DataFrame(IdentityColumns, rows) : rows \in SeqsUpTo(SensorRows, MaxRows)}

TsGood == TsV("Mon", 1, "Jan", 2024, 0, 0, 0, "GMT")
TsDay32 == TsV("Fri", 32, "Jan", 2024, 10, 30, 5, "UTC")
FeedEntries ==
    {DictV(<< <<"title", StrV("X")>>,
              <<"datacasting_acquisitionstartdate", TsGood>>,
              <<"gml_lowercorner", TextV(<<Numeral(10, 0), Numeral(20, 0)>>)>>,
              <<"gml_uppercorner", TextV(<<Numeral(30, 5), Numeral(40, 0)>>)>> >>),
     DictV(<< <<"title", StrV("Y")>>, <<"link", StrV("https://www.mosdac.gov.in/y")>>,
              <<"datacasting_acquisitionstartdate",
                TsV("Thu", 29, "Feb", 2024, 23, 59, 59, "UTC")>>,
              <<"gml_lowercorner", TextV(<<>>)>> >>),
     DictV(<< <<"title", StrV("Z")>> >>),
     DictV(<< <<"title", StrV("W")>>,
              <<"datacasting_acquisitionstartdate", StrV("2024-01-01T00:00:00Z")>> >>),
     DictV(<< <<"title", StrV("U")>>,
              <<"datacasting_acquisitionstartdate", TsDay32>> >>),
     DictV(<< <<"title", StrV("V")>>,
              <<"datacasting_acquisitionstartdate", TsGood>>,
              <<"gml_uppercorner", TextV(<<Numeral(10, 0), Word("abc")>>)>> >>)}
Feeds == {[entries |-> s] : s \in SeqsUpTo(FeedEntries, MaxEntries)}

\* ------------------------------------------------------------- state
Init ==
    /\ op = "idle"
    /\ input = Nothing
    /\ remote = Nothing
    /\ sent = <<>>
    /\ ret = Pending
    /\ idx = 0
    /\ all_dataframes = <<>>
    /\ trace = <<>>

\* The six operations below run in one step: the state keeps the operation,
\* its arguments, what the remote answered, the POSTs issued and the result.
CallFetchSatelliteData ==
    /\ op = "idle"
    /\ \E payload \in Payloads, outcome \in RemoteOutcomes :
        /\ op' = "fetch_satellite_data"
        /\ input' = <<payload>>
        /\ remote' = outcome
        /\ sent' = fetch_satellite_data(payload, outcome).sent
        /\ ret' = fetch_satellite_data(payload, outcome).ret
    /\ UNCHANGED <<idx, all_dataframes, trace>>

CallFetchSatelliteSensorsData ==
    /\ op = "idle"
    /\ \E sat \in Satellites, outcome \in RemoteOutcomes :
        /\ op' = "fetch_satellite_sensors_data"
        /\ input' = <<sat[2]>>
        /\ remote' = outcome
        /\ sent' = fetch_satellite_sensors_data(sat[2], outcome).sent
        /\ ret' = fetch_satellite_sensors_data(sat[2], outcome).ret
    /\ UNCHANGED <<idx, all_dataframes, trace>>

CallFetchAllProductsData ==
    /\ op = "idle"
    /\ \E row \in SensorRows, outcome \in RemoteOutcomes :
        /\ op' = "fetch_all_products_data"
        /\ input' = <<row["satellite_id"], row["sensor_id"]>>
        /\ remote' = outcome
        /\ sent' = fetch_all_products_data(row["satellite_id"], row["sensor_id"],
                                           outcome).sent
        /\ ret' = fetch_all_products_data(row["satellite_id"], row["sensor_id"],
                                          outcome).ret
    /\ UNCHANGED <<idx, all_dataframes, trace>>

CallProcessSatelliteSensorsData ==
    /\ op = "idle"
    /\ \E sat \in Satellites, data \in SensorData :
        /\ op' = "process_satellite_sensors_data"
        /\ input' = <<sat[1], sat[2], data>>
        /\ ret' = process_satellite_sensors_data(sat[1], sat[2], data)
    /\ UNCHANGED <<remote, sent, idx, all_dataframes, trace>>

CallProcessAllProductsData ==
    /\ op = "idle"
    /\ \E row \in SensorRows, data \in {None} \cup JsonBodies :
        /\ op' = "process_all_products_data"
        /\ input' = <<row["satellite_id"], row["satellite_name"], row["sensor_id"],
                      row["sensor_name"], data>>
        /\ ret' = process_all_products_data(row["satellite_id"], row["satellite_name"],
                                            row["sensor_id"], row["sensor_name"], data)
    /\ UNCHANGED <<remote, sent, idx, all_dataframes, trace>>

CallRssScraper ==
    /\ op = "idle"
    /\ \E feed \in Feeds :
        /\ op' = "rss_scraper"
        /\ input' = <<feed>>
        /\ ret' = rss_scraper(feed)
    /\ UNCHANGED <<remote, sent, idx, all_dataframes, trace>>

\* make_all_products_dataframe, line 249: the call and the empty list
MakeStart ==
    /\ op = "idle"
    /\ \E table \in SensorTables : input' = <<table>>
    /\ op' = "make_all_products_dataframe"
    /\ idx' = 1
    /\ all_dataframes' = <<>>
    /\ UNCHANGED <<remote, sent, ret, trace>>

\* lines 251-265: one iteration of the loop, for row idx: fetch, project,
\* keep or skip; an exception of the projection leaves the function
MakeRow ==
    /\ op = "make_all_products_dataframe"
    /\ ret = Pending
    /\ idx <= Len(input[1].rows)
    /\ \E outcome \in RemoteOutcomes :
        LET row == input[1].rows[idx]
            fetched == fetch_all_products_data(row["satellite_id"],
                                               row["sensor_id"], outcome)
            processed_df ==
                process_all_products_data(row["satellite_id"], row["satellite_name"],
                                          row["sensor_id"], row["sensor_name"],
                                          fetched.ret.v)
        IN  /\ sent' = sent \o fetched.sent
            /\ trace' = Append(trace, [row |-> idx, data |-> fetched.ret.v,
                                       processed |-> processed_df])
            /\ IF processed_df.k = "raise"
               THEN /\ ret' = processed_df
                    /\ UNCHANGED <<idx, all_dataframes>>
               ELSE /\ all_dataframes' = collect(all_dataframes, processed_df.v)
                    /\ idx' = idx + 1
                    /\ UNCHANGED ret
    /\ UNCHANGED <<op, input, remote>>

\* lines 267-272: after the loop
MakeFinish ==
    /\ op = "make_all_products_dataframe"
    /\ ret = Pending
    /\ idx > Len(input[1].rows)
    /\ ret' = make_result(all_dataframes)
    /\ UNCHANGED <<op, input, remote, sent, idx, all_dataframes, trace>>

Next ==
    \/ CallFetchSatelliteData
    \/ CallFetchSatelliteSensorsData
    \/ CallFetchAllProductsData
    \/ CallProcessSatelliteSensorsData
    \/ CallProcessAllProductsData
    \/ CallRssScraper
    \/ MakeStart
    \/ MakeRow
    \/ MakeFinish

Spec == Init /\ [][Next]_vars

\* ===================================================================
\* Properties
\* ===================================================================
MakeOp == op = "make_all_products_dataframe"
MakeReturned == MakeOp /\ ret.k = "return"
FetchOps == {"fetch_satellite_data", "fetch_satellite_sensors_data",
             "fetch_all_products_data"}

\* a fetch result that is absent or holds nothing
NoData == {None, ListV(<<>>), DictV(<<>>)}

\* the number of product records a fetch result holds
ProductCount(data) == IF data.t = "list" THEN Len(data.items) ELSE 0

RECURSIVE CountUpTo(_)
CountUpTo(n) == IF n = 0 THEN 0 ELSE CountUpTo(n - 1) + ProductCount(trace[n].data)

\* the output row that holds product j of input row i
OutRow(i, j) == ret.v.rows[CountUpTo(i - 1) + j]

\* C1: the returned table has as many rows as the product records of the
\* input rows that did not yield absence; an input row yields absence exactly
\* when its fetch failed or returned nothing, and then it adds no row.
C1_RowCount ==
    MakeReturned =>
        /\ Len(ret.v.rows) = CountUpTo(Len(trace))
        /\ \A i \in 1..Len(trace) :
              (trace[i].processed.v = None) <=> (ProductCount(trace[i].data) = 0)

C1_Witness ==
    /\ MakeReturned
    /\ Len(trace) = 2
    /\ trace[1].data = None
    /\ ProductCount(trace[2].data) = 2
    /\ Len(ret.v.rows) = 2

\* C2: every input row is fetched exactly once, in input order, whatever the
\* earlier rows gave, and the call always ends in the concatenation step.
C2_EveryRowFetchedOnce ==
    MakeOp =>
        /\ Len(sent) = Len(trace)
        /\ \A k \in 1..Len(trace) : trace[k].row = k
        /\ ret # Pending =>
              /\ ret.k = "return"
              /\ Len(trace) = Len(input[1].rows)

\* C3: no public operation raises: every call ends in a returned value.
C3_NoException == ret.k # "raise"

\* C4: with no input rows, or with every row's fetch failed or empty, the
\* result is the empty table without columns.
C4_EmptyTable ==
    (MakeOp /\ ret # Pending /\ \A i \in 1..Len(trace) : trace[i].data \in NoData)
        => ret = Return(DataFrame(<<>>, <<>>))

C4_Witness ==
    /\ MakeOp
    /\ Len(input[1].rows) = 2
    /\ Len(trace) = 2
    /\ trace[1].data = None
    /\ trace[2].data = ListV(<<>>)
    /\ ret = Return(DataFrame(<<>>, <<>>))

\* C5: for a non-empty product list the columns are the four identity columns
\* followed by all the original columns in their original order.
C5_ColumnOrder ==
    (op = "process_all_products_data" /\ input[5].t = "list" /\ input[5].items # <<>>)
        => /\ ret.k = "return"
           /\ ret.v.columns = IdentityColumns \o ColumnsOfRecords(input[5].items)

\* C6: output rows follow input row order and fetched order; the columns are
\* the union of the contributors' columns, and a product row holds a missing
\* value in every product column its record lacks.
C6_RowOrder ==
    MakeReturned =>
        /\ Range(ret.v.columns) =
              UNION {Range(trace[i].processed.v.columns) :
                        i \in {n \in 1..Len(trace) : trace[n].processed.v # None}}
        /\ \A i \in 1..Len(trace) : \A j \in 1..ProductCount(trace[i].data) :
              \A c \in Range(ret.v.columns) \ Range(IdentityColumns) :
                 OutRow(i, j)[c] =
                    IF HasKey(trace[i].data.items[j].pairs, c)
                    THEN Get(trace[i].data.items[j].pairs, c) ELSE NaN

C6_Witness ==
    /\ MakeReturned
    /\ Len(trace) = 2
    /\ trace[1].data = ListV(<<RecA>>)
    /\ trace[2].data = ListV(<<RecB, RecA>>)
    /\ ret.v.columns = IdentityColumns \o <<"id", "title", "extra">>
    /\ ret.v.rows[1]["extra"] = NaN
    /\ ret.v.rows[2]["title"] = NaN
    /\ ret.v.rows[3]["title"] = StrV("SST")

\* the text Python's str() gives for the ids of the inputs
TextOf(x) ==
    CASE x = IntV(3) -> StrV("3")
      [] x = IntV(5) -> StrV("5")
      [] x = IntV(7) -> StrV("7")
      [] x = IntV(9) -> StrV("9")
      [] OTHER -> x

WellFormed(sensor) == HasKey(sensor.pairs, "name") /\ HasKey(sensor.pairs, "id")

\* C7: the sensor projection returns absence for absent or empty data and
\* for a list with any element lacking name or id; otherwise one row per
\* element, in order, with satellite_id and sensor_id as text.
C7_AllOrNothing ==
    op = "process_satellite_sensors_data" =>
        LET data == input[3]
            whole == data.t = "list" /\ data.items # <<>>
                     /\ \A i \in 1..Len(data.items) : WellFormed(data.items[i])
        IN  /\ ret.k = "return"
            /\ data \in NoData => ret.v = None
            /\ ~whole => ret.v = None
            /\ whole =>
                  /\ ret.v.t = "df"
                  /\ ret.v.columns = IdentityColumns
                  /\ Len(ret.v.rows) = Len(data.items)
                  /\ \A i \in 1..Len(data.items) :
                        /\ ret.v.rows[i]["satellite_name"] = input[1]
                        /\ ret.v.rows[i]["satellite_id"] = TextOf(input[2])
                        /\ ret.v.rows[i]["sensor_name"] = Get(data.items[i].pairs, "name")
                        /\ ret.v.rows[i]["sensor_id"] =
                              TextOf(Get(data.items[i].pairs, "id"))
                        /\ ret.v.rows[i]["satellite_id"].t = "str"
                        /\ ret.v.rows[i]["sensor_id"].t = "str"

C7_Witness ==
    /\ op = "process_satellite_sensors_data"
    /\ input[2] = IntV(3)
    /\ ret.v.t = "df"
    /\ Len(ret.v.rows) = 2
    /\ Get(input[3].items[1].pairs, "id") = IntV(7)
    /\ Get(input[3].items[2].pairs, "id") = StrV("8")
    /\ ret.v.rows[1]["sensor_id"] = StrV("7")

\* the acquisition timestamps of the feeds that match the pattern
GoodTimestamps == {TsGood, TsV("Thu", 29, "Feb", 2024, 23, 59, 59, "UTC")}
AcqOk(entry) ==
    /\ HasKey(entry.pairs, "datacasting_acquisitionstartdate")
    /\ Get(entry.pairs, "datacasting_acquisitionstartdate") \in GoodTimestamps
\* a bounding-box field that is absent, empty or all numerals
CornerOk(entry, key) ==
    HasKey(entry.pairs, key) =>
        \A i \in 1..Len(Get(entry.pairs, key).tokens) :
            Get(entry.pairs, key).tokens[i].t = "numeral"
BoxOk(entry) == CornerOk(entry, "gml_lowercorner") /\ CornerOk(entry, "gml_uppercorner")

RssTable(entries) ==
    /\ ret.v.t = "df"
    /\ Len(ret.v.rows) = Len(entries)
    /\ \A i \in 1..Len(entries) :
          /\ ret.v.rows[i]["title"] = Get(entries[i].pairs, "title")
          /\ ret.v.rows[i]["acq_start"] =
                Get(entries[i].pairs, "datacasting_acquisitionstartdate")

\* C8 as stated: absence for a feed without entries or with any entry whose
\* acq_start is missing or unparsable; otherwise a table, one row per entry.
C8_Original ==
    op = "rss_scraper" =>
        LET entries == input[1].entries
        IN  /\ ret.k = "return"
            /\ entries = <<>> => ret.v = None
            /\ (\E i \in 1..Len(entries) : ~AcqOk(entries[i])) => ret.v = None
            /\ (entries # <<>> /\ \A i \in 1..Len(entries) : AcqOk(entries[i]))
                  => RssTable(entries)

\* C8 amended: a present bounding-box field that is not all numerals makes
\* the whole call return absence too; otherwise a table, one row per entry,
\* in entry order.
C8_AllOrNothing ==
    op = "rss_scraper" =>
        LET entries == input[1].entries
        IN  /\ ret.k = "return"
            /\ entries = <<>> => ret.v = None
            /\ (\E i \in 1..Len(entries) : ~AcqOk(entries[i])) => ret.v = None
            /\ (\E i \in 1..Len(entries) : ~BoxOk(entries[i])) => ret.v = None
            /\ (entries # <<>>
                /\ \A i \in 1..Len(entries) : AcqOk(entries[i]) /\ BoxOk(entries[i]))
                  => RssTable(entries)

C8_Witness ==
    /\ op = "rss_scraper"
    /\ Len(input[1].entries) = 2
    /\ Get(input[1].entries[1].pairs, "title") = StrV("Y")
    /\ Get(input[1].entries[2].pairs, "title") = StrV("X")
    /\ ret.v.t = "df"
    /\ ret.v.rows[1]["product_id"] = StrV("Y_2024-02-29T23-59-59")
    /\ ret.v.rows[2]["product_id"] = StrV("X_2024-01-01T00-00-00")
    /\ ret.v.rows[2]["bbox_upper"].t = "list"

\* C8: one bad entry after a good one still gives absence
C8_WitnessAbort ==
    /\ op = "rss_scraper"
    /\ Len(input[1].entries) = 2
    /\ AcqOk(input[1].entries[1]) /\ BoxOk(input[1].entries[1])
    /\ ~AcqOk(input[1].entries[2])
    /\ ret = Return(None)

TransportFailed == remote.transport # "ok"

C10_Identity ==
    MakeReturned =>
        \A i \in 1..Len(trace) :
            /\ sent[i].json =
                  DictV(<< <<"datasource_id", TextOf(input[1].rows[i]["satellite_id"])>>,
                           <<"sensor_id", TextOf(input[1].rows[i]["sensor_id"])>> >>)
            /\ \A j \in 1..ProductCount(trace[i].data) :
                  \A c \in Range(IdentityColumns) :
                      OutRow(i, j)[c] = input[1].rows[i][c]

C10_Witness ==
    /\ MakeReturned
    /\ Len(trace) = 2
    /\ input[1].rows[1] # input[1].rows[2]
    /\ trace[1].data = ListV(<<RecB>>)
    /\ trace[2].data = ListV(<<RecA>>)
    /\ ret.v.rows[1]["sensor_id"] = input[1].rows[1]["sensor_id"]
    /\ ret.v.rows[2]["sensor_id"] = input[1].rows[2]["sensor_id"]
====
